---- MODULE Spec2Model ----
(***************************************************************************)
(* Model of the nested to-do list of src/note.py (class ModernTodoApp):    *)
(* the in-memory task tree, the path-addressed operations on it, the       *)
(* dialogs that commit some of them, and the file the tree is saved to.    *)
(*                                                                         *)
(* A task is a Python dict, modelled as a record whose DOMAIN is the set   *)
(* of keys the dict holds ("text", "done", "subtasks"); a list is a        *)
(* sequence; a text is a sequence of one-character strings; an Optional    *)
(* value is a sequence of length 0 (None) or 1.  Python indexes from 0,    *)
(* sequences from 1: Pos converts.                                         *)
(***************************************************************************)
EXTENDS Integers, Sequences, FiniteSets, TLC

\* ------------------------------------------------------------------ bounds

\* No handler adds a task once the tree holds this many, in the runs where no
\* save fails.
MaxNodes == 3

\* The same, in the runs where saves may fail.
MaxNodesFaulty == 2

\* How many save attempts the environment lets fail in one run.
MaxSaveFailures == 1

\* ------------------------------------------------------------------ texts

Whitespace == {" ", "\t"}

\* What an entry field can hold when its handler reads it: nothing, white space
\* only, and a text with white space before, inside and after it.
TextInputs == {<<>>, <<" ", "\t">>, <<" ", "y", "\t", "z", "\t">>}

RECURSIVE lstrip(_)
lstrip(s) ==
    IF s = <<>> THEN s
    ELSE IF Head(s) \in Whitespace THEN lstrip(Tail(s)) ELSE s

RECURSIVE rstrip(_)
rstrip(s) ==
    IF s = <<>> THEN s
    ELSE IF s[Len(s)] \in Whitespace THEN rstrip(SubSeq(s, 1, Len(s) - 1)) ELSE s

\* str.strip()
strip(s) == rstrip(lstrip(s))

\* ------------------------------------------------------------------ dicts and lists

None == <<>>

Some(v) == <<v>>

\* dict[key] = val, adding the key when the dict lacks it
SetKey(task, key, val) ==
    [k \in DOMAIN task \cup {key} |-> IF k = key THEN val ELSE task[k]]

\* task.get('subtasks', [])
subtasks_get(task) ==
    IF "subtasks" \in DOMAIN task THEN task.subtasks ELSE <<>>

\* task.get('done', False)
done_get(task) ==
    IF "done" \in DOMAIN task THEN task.done ELSE FALSE

\* list[index] raises IndexError outside -len .. len-1
InRange(list, index) == -Len(list) <= index /\ index < Len(list)

\* the position list[index] reads: a negative index counts from the end
Pos(list, index) == IF index >= 0 THEN index + 1 ELSE Len(list) + index + 1

\* del list[index:], which takes the later elements as well
pop_from(list, index) == SubSeq(list, 1, index)

\* list.pop(): the index forgotten
pop_last(list, index) == SubSeq(list, 1, Len(list) - 1)

\* list.pop(index)
pop(list, index) ==
    LET k == Pos(list, index)
    IN  SubSeq(list, 1, k - 1) \o SubSeq(list, k + 1, Len(list))

\* ------------------------------------------------------------------ addressing

RECURSIVE walk_to_task(_, _)
walk_to_task(current, path) ==
    IF ~InRange(current, path[1]) THEN None
    ELSE IF Len(path) = 1 THEN Some(current[Pos(current, path[1])])
    ELSE walk_to_task(subtasks_get(current[Pos(current, path[1])]), Tail(path))

get_task_from_path(tree, path) ==
    IF path = <<>> THEN None ELSE walk_to_task(tree, path)

RECURSIVE walk_to_list(_, _)
walk_to_list(current, parent_path) ==
    IF parent_path = <<>> THEN Some(current)
    ELSE IF ~InRange(current, parent_path[1]) THEN None
    ELSE IF "subtasks" \notin DOMAIN current[Pos(current, parent_path[1])] THEN None
    ELSE walk_to_list(current[Pos(current, parent_path[1])].subtasks, Tail(parent_path))

get_parent_list_from_path(tree, path) ==
    IF path = <<>> THEN None
    ELSE IF Len(path) = 1 THEN Some(tree)
    ELSE walk_to_list(tree, SubSeq(path, 1, Len(path) - 1))

\* ------------------------------------------------------------------ mutation in place

\* The tree after the dict that get_task_from_path(tree, path) returned has been
\* changed into `task`: a dict is changed in place, so the change shows at the
\* place the walk found it.
RECURSIVE store_task(_, _, _)
store_task(current, path, task) ==
    LET k == Pos(current, path[1])
    IN  IF Len(path) = 1 THEN [current EXCEPT ![k] = task]
        ELSE [current EXCEPT
                ![k] = SetKey(@, "subtasks", store_task(subtasks_get(@), Tail(path), task))]

\* The tree after parent_list.pop(task_index) on the list that
\* get_parent_list_from_path(tree, path) returned.
RECURSIVE pop_task(_, _)
pop_task(current, path) ==
    LET k == Pos(current, path[1])
    IN  IF Len(path) = 1 THEN pop(current, path[1])
        ELSE [current EXCEPT ![k] = [@ EXCEPT !.subtasks = pop_task(@, Tail(path))]]

\* new_task keeping the text as typed
new_task_unstripped(text) == [text |-> text, done |-> FALSE, subtasks |-> <<>>]

\* a new task made without its list of subtasks
new_task_without_subtasks(text) == [text |-> strip(text), done |-> FALSE]

new_task(text) == [text |-> strip(text), done |-> FALSE, subtasks |-> <<>>]

\* add_task_to_path falling back to the roots when the parent is not found
add_task_to_path_fallback(tree, text, path) ==
    IF strip(text) = <<>> THEN tree
    ELSE IF path = None THEN Append(tree, new_task(text))
    ELSE LET parent_task == get_task_from_path(tree, path[1])
         IN  IF parent_task = None THEN Append(tree, new_task(text))
             ELSE store_task(tree, path[1],
                      SetKey(parent_task[1], "subtasks",
                             Append(subtasks_get(parent_task[1]), new_task(text))))

\* save_edit testing the text before it is stripped
save_edit_unstripped(tree, path, entry) ==
    LET task == get_task_from_path(tree, path)
    IN  IF task = None THEN tree
        ELSE IF entry = <<>> THEN tree
        ELSE store_task(tree, path, SetKey(task[1], "text", strip(entry)))

\* add_task_to_path with insert(0, new_task) in place of append(new_task)
add_task_to_path_first(tree, text, path) ==
    IF strip(text) = <<>> THEN tree
    ELSE IF path = None THEN <<new_task(text)>> \o tree
    ELSE LET parent_task == get_task_from_path(tree, path[1])
         IN  IF parent_task = None THEN tree
             ELSE store_task(tree, path[1],
                      SetKey(parent_task[1], "subtasks",
                             <<new_task(text)>> \o subtasks_get(parent_task[1])))

\* tasks_tree after add_task_to_path(text, path); path is None or Some(p)
add_task_to_path(tree, text, path) ==
    IF strip(text) = <<>> THEN tree
    ELSE IF path = None THEN Append(tree, new_task(text))
    ELSE LET parent_task == get_task_from_path(tree, path[1])
         IN  IF parent_task = None THEN tree
             ELSE store_task(tree, path[1],
                      SetKey(parent_task[1], "subtasks",
                             Append(subtasks_get(parent_task[1]), new_task(text))))

\* toggle_task marking the task done instead of negating the flag
toggle_task_set_done(tree, path) ==
    LET task == get_task_from_path(tree, path)
    IN  IF task = None THEN tree
        ELSE store_task(tree, path, SetKey(task[1], "done", TRUE))

\* toggle_task giving the new flag to the task's subtasks as well
toggle_task_cascade(tree, path) ==
    LET task == get_task_from_path(tree, path)
        flag == ~done_get(task[1])
        subs == subtasks_get(task[1])
    IN  IF task = None THEN tree
        ELSE store_task(tree, path,
                 SetKey(SetKey(task[1], "done", flag), "subtasks",
                        [i \in DOMAIN subs |-> SetKey(subs[i], "done", flag)]))

\* tasks_tree after toggle_task(path)
toggle_task(tree, path) ==
    LET task == get_task_from_path(tree, path)
    IN  IF task = None THEN tree
        ELSE store_task(tree, path, SetKey(task[1], "done", ~done_get(task[1])))

\* save_edit storing the text as typed
save_edit_raw(tree, path, entry) ==
    LET task == get_task_from_path(tree, path)
    IN  IF task = None THEN tree
        ELSE IF strip(entry) = <<>> THEN tree
        ELSE store_task(tree, path, SetKey(task[1], "text", entry))

\* tasks_tree after edit_task(path) and then save_edit with `entry` in the field
save_edit(tree, path, entry) ==
    LET task == get_task_from_path(tree, path)
        new_text == strip(entry)
    IN  IF task = None THEN tree
        ELSE IF new_text = <<>> THEN tree
        ELSE store_task(tree, path, SetKey(task[1], "text", new_text))

\* tasks_tree after delete_task(path) with the confirmation answered `result`
delete_task(tree, path, result) ==
    LET task == get_task_from_path(tree, path)
        parent_list == get_parent_list_from_path(tree, path)
    IN  IF task = None THEN tree
        ELSE IF ~result THEN tree
        ELSE IF parent_list = None THEN tree
        ELSE IF ~(0 <= path[Len(path)] /\ path[Len(path)] < Len(parent_list[1])) THEN tree
        ELSE pop_task(tree, path)

\* ------------------------------------------------------------------ display

RECURSIVE display_task_recursive(_, _, _)
RECURSIVE display_each(_, _, _, _)

\* display_task_recursive packing the widget of a task after those of its subtasks
display_task_recursive_after(task, path, depth) ==
    (IF "subtasks" \in DOMAIN task /\ task.subtasks # <<>>
     THEN display_each(task.subtasks, path, depth + 1, 0)
     ELSE <<>>)
    \o <<[task |-> task, path |-> path, depth |-> depth]>>

\* one widget per task, in the order they are packed
display_task_recursive(task, path, depth) ==
    <<[task |-> task, path |-> path, depth |-> depth]>> \o
    (IF "subtasks" \in DOMAIN task /\ task.subtasks # <<>>
     THEN display_each(task.subtasks, path, depth + 1, 0)
     ELSE <<>>)

\* enumerate(list, 1): the paths count from one
display_each_from_one(list, path, depth, i) ==
    IF i >= Len(list) THEN <<>>
    ELSE display_task_recursive(list[i + 1], Append(path, i + 1), depth)
         \o display_each(list, path, depth, i + 1)

\* for i, subtask in enumerate(list), from index i on
display_each(list, path, depth, i) ==
    IF i >= Len(list) THEN <<>>
    ELSE display_task_recursive(list[i + 1], Append(path, i), depth)
         \o display_each(list, path, depth, i + 1)

refresh_display(tree) ==
    IF tree = <<>> THEN <<>> ELSE display_each(tree, <<>>, 0, 0)

\* ------------------------------------------------------------------ objects

(***************************************************************************)
(* Which dict object is where.  `objects` has the shape of tasks_tree and,  *)
(* in place of what a task holds, its identity: a number that no other      *)
(* dict alive at the time has (a dict no longer referred to is freed, and   *)
(* its identity may be given to a later one).  The handlers reach a dict    *)
(* through a path into the tree, or, in save_edit, through the reference    *)
(* that edit_task kept.  Which number a dict has means nothing, only which  *)
(* places hold the same one: when a handler is done the dicts are numbered  *)
(* anew, in the order in which the display first comes to them, the same    *)
(* dict keeping one number wherever it is.                                  *)
(***************************************************************************)
Range(s) == {s[i] : i \in DOMAIN s}

\* the identities in objs in the order of display, as many times as they occur
RECURSIVE IdsAt(_)
IdsAt(objs) ==
    IF objs = <<>> THEN <<>>
    ELSE <<Head(objs).id>> \o IdsAt(subtasks_get(Head(objs))) \o IdsAt(Tail(objs))

Ids(objs) == Range(IdsAt(objs))

\* the paths at which the dict `id` is found in objs
PathsOf(objs, id) == {w.path : w \in {v \in Range(refresh_display(objs)) : v.task.id = id}}

\* the identity of a dict made while those of `live` are alive
NewId(live) == CHOOSE n \in 0..Cardinality(live) : n \notin live /\ \A m \in 0..(n - 1) : m \in live

\* json.load makes one new dict for each object it reads: they are numbered
\* from `next` on in the order of display
RECURSIVE load_objects(_, _)
load_objects(list, next) ==
    IF list = <<>> THEN <<>>
    ELSE LET under == load_objects(subtasks_get(Head(list)), next + 1)
         IN  <<IF "subtasks" \in DOMAIN Head(list)
               THEN [id |-> next, subtasks |-> under]
               ELSE [id |-> next]>>
             \o load_objects(Tail(list), next + 1 + Len(IdsAt(under)))

\* the number of the dict `id` when the dicts of a tree, which come in the order
\* ids on display, are numbered anew; a dict that is alive and not in the tree
\* (one only, the dialog's) comes after them
Renumber(id, ids) ==
    IF id \notin Range(ids) THEN Cardinality(Range(ids))
    ELSE LET first == CHOOSE i \in DOMAIN ids :
                          ids[i] = id /\ \A j \in 1..(i - 1) : ids[j] # id
         IN  Cardinality({ids[j] : j \in 1..(first - 1)})

RECURSIVE renumber_objects(_, _)
renumber_objects(list, ids) ==
    [i \in DOMAIN list |->
        IF "subtasks" \in DOMAIN list[i]
        THEN [id |-> Renumber(list[i].id, ids),
              subtasks |-> renumber_objects(list[i].subtasks, ids)]
        ELSE [id |-> Renumber(list[i].id, ids)]]

\* add_task_to_path appending a dict that is already in the tree: the parent
AddObjectShared(objs, id, path) ==
    IF path = None THEN Append(objs, [id |-> id, subtasks |-> <<>>])
    ELSE LET parent_task == get_task_from_path(objs, path[1])
         IN  IF parent_task = None THEN objs
             ELSE store_task(objs, path[1],
                      SetKey(parent_task[1], "subtasks",
                             Append(subtasks_get(parent_task[1]), [id |-> parent_task[1].id])))

\* objects after add_task_to_path has made the dict `id` (with its own new list
\* of subtasks) and appended it; path is None or Some(p)
AddObject(objs, id, path) ==
    IF path = None THEN Append(objs, [id |-> id, subtasks |-> <<>>])
    ELSE LET parent_task == get_task_from_path(objs, path[1])
         IN  IF parent_task = None THEN objs
             ELSE store_task(objs, path[1],
                      SetKey(parent_task[1], "subtasks",
                             Append(subtasks_get(parent_task[1]),
                                    [id |-> id, subtasks |-> <<>>])))

\* ------------------------------------------------------------------ the JSON file

(***************************************************************************)
(* The content of the file is a sequence of tokens, each a string: the     *)
(* punctuation of JSON, true and false, and a string literal spelled as a  *)
(* quote, its characters and a quote (a key is one item between quotes),   *)
(* where a quote, a backslash and a tab inside the string are written as a *)
(* backslash and a second character.                                       *)
(* The white space that indent=4 adds carries no meaning and is left out;  *)
(* keys are written in the order text, done, subtasks.                     *)
(***************************************************************************)
Quote == "\""

Backslash == "\\"

KeyOrder == <<"text", "done", "subtasks">>

\* a string written without escaping any of its characters
dump_chars_raw(text) == text

\* the characters of a string as json.dump writes them
RECURSIVE dump_chars(_)
dump_chars(text) ==
    IF text = <<>> THEN <<>>
    ELSE (CASE Head(text) = Quote -> <<Backslash, Quote>>
            [] Head(text) = Backslash -> <<Backslash, Backslash>>
            [] Head(text) = "\t" -> <<Backslash, "t">>
            [] OTHER -> <<Head(text)>>)
         \o dump_chars(Tail(text))

RECURSIVE dump_value(_, _)
RECURSIVE dump_items(_, _)
RECURSIVE dump_members(_, _, _)

\* kind is "list", "dict", "str" or "bool"
dump_value(kind, v) ==
    CASE kind = "list" -> <<"[">> \o dump_items(v, 1) \o <<"]">>
      [] kind = "dict" -> <<"{">> \o dump_members(v, 1, TRUE) \o <<"}">>
      [] kind = "str"  -> <<Quote>> \o dump_chars(v) \o <<Quote>>
      [] kind = "bool" -> IF v THEN <<"true">> ELSE <<"false">>

dump_items(list, i) ==
    IF i > Len(list) THEN <<>>
    ELSE (IF i > 1 THEN <<",">> ELSE <<>>)
         \o dump_value("dict", list[i]) \o dump_items(list, i + 1)

dump_members(task, i, first) ==
    IF i > Len(KeyOrder) THEN <<>>
    ELSE IF KeyOrder[i] \notin DOMAIN task THEN dump_members(task, i + 1, first)
    ELSE (IF first THEN <<>> ELSE <<",">>)
         \o <<Quote, KeyOrder[i], Quote, ":">>
         \o dump_value(CASE KeyOrder[i] = "text" -> "str"
                         [] KeyOrder[i] = "done" -> "bool"
                         [] KeyOrder[i] = "subtasks" -> "list",
                       task[KeyOrder[i]])
         \o dump_members(task, i + 1, FALSE)

\* json.dump(self.tasks_tree, f, indent=4)
json_dump(tree) == dump_value("list", tree)

Bad == [ok |-> FALSE, value |-> <<>>, rest |-> <<>>]

Good(v, rest) == [ok |-> TRUE, value |-> v, rest |-> rest]

RECURSIVE parse_value(_)
RECURSIVE parse_items(_, _)
RECURSIVE parse_members(_, _)
RECURSIVE parse_chars(_, _)

\* after the opening quote
parse_chars(ts, acc) ==
    IF ts = <<>> THEN Bad
    ELSE IF Head(ts) = Quote THEN Good(acc, Tail(ts))
    ELSE IF Head(ts) = Backslash
         THEN IF Len(ts) < 2 THEN Bad
              ELSE CASE ts[2] \in {Quote, Backslash} ->
                          parse_chars(SubSeq(ts, 3, Len(ts)), Append(acc, ts[2]))
                     [] ts[2] = "t" -> parse_chars(SubSeq(ts, 3, Len(ts)), Append(acc, "\t"))
                     [] OTHER -> Bad
    ELSE IF Head(ts) = "\t" THEN Bad
    ELSE parse_chars(Tail(ts), Append(acc, Head(ts)))

parse_value(ts) ==
    IF ts = <<>> THEN Bad
    ELSE CASE Head(ts) = "[" ->
                IF Len(ts) >= 2 /\ ts[2] = "]" THEN Good(<<>>, SubSeq(ts, 3, Len(ts)))
                ELSE parse_items(Tail(ts), <<>>)
           [] Head(ts) = "{" ->
                IF Len(ts) >= 2 /\ ts[2] = "}" THEN Good(<<>>, SubSeq(ts, 3, Len(ts)))
                ELSE parse_members(Tail(ts), <<>>)
           [] Head(ts) = Quote -> parse_chars(Tail(ts), <<>>)
           [] Head(ts) = "true" -> Good(TRUE, Tail(ts))
           [] Head(ts) = "false" -> Good(FALSE, Tail(ts))
           [] OTHER -> Bad

\* after "[" or ",": a value, then "," or "]"
parse_items(ts, acc) ==
    LET v == parse_value(ts)
    IN  IF ~v.ok \/ v.rest = <<>> THEN Bad
        ELSE IF Head(v.rest) = "]" THEN Good(Append(acc, v.value), Tail(v.rest))
        ELSE IF Head(v.rest) = "," THEN parse_items(Tail(v.rest), Append(acc, v.value))
        ELSE Bad

\* after "{" or ",": a one-item key, ":", a value, then "," or "}"
parse_members(ts, acc) ==
    IF Len(ts) < 4 \/ ts[1] # Quote \/ ts[3] # Quote \/ ts[4] # ":" THEN Bad
    ELSE LET v == parse_value(SubSeq(ts, 5, Len(ts)))
         IN  IF ~v.ok \/ v.rest = <<>> THEN Bad
             ELSE IF Head(v.rest) = "}"
                  THEN Good(SetKey(acc, ts[2], v.value), Tail(v.rest))
             ELSE IF Head(v.rest) = ","
                  THEN parse_members(Tail(v.rest), SetKey(acc, ts[2], v.value))
             ELSE Bad

\* json.load(f): the value, or JSONDecodeError (also for text after the value)
json_load(content) ==
    LET v == parse_value(content)
    IN  IF v.ok /\ v.rest = <<>> THEN v ELSE Bad

Absent == [exists |-> FALSE, readable |-> FALSE, content |-> <<>>]

FileWith(content) == [exists |-> TRUE, readable |-> TRUE, content |-> content]

\* a file that exists and that open(data_file, 'r') is refused (PermissionError)
Unreadable(content) == [exists |-> TRUE, readable |-> FALSE, content |-> content]

\* Whether load_tasks() raises on the file f: its except clause names
\* JSONDecodeError and FileNotFoundError only, so the OSError of an open that is
\* refused goes on to the caller, __init__.
load_raises(f) == f.exists /\ ~f.readable

\* tasks_tree after load_tasks() finds the file f and does not raise
load_tasks(f) ==
    IF ~f.exists THEN <<>>
    ELSE IF Len(f.content) = 0 THEN <<>>
    ELSE LET loaded == json_load(f.content)
         IN  IF ~loaded.ok THEN <<>> ELSE loaded.value

\* The file after save_tasks(): open(data_file, 'w') creates or empties the file and
\* json.dump writes into it; either may raise, and a write that raises leaves the
\* first `written` tokens behind.
write_file(f, dumped, outcome, written) ==
    CASE outcome = "ok" -> [FileWith(dumped) EXCEPT !.readable = f.exists => f.readable]
      [] outcome = "open_error" -> f
      [] outcome = "write_error" ->
            [FileWith(SubSeq(dumped, 1, written)) EXCEPT !.readable = f.exists => f.readable]

\* the file after save_tasks() of the tree
save_tasks(f, tree, outcome, written) == write_file(f, json_dump(tree), outcome, written)

SaveOutcomes == {"ok", "open_error", "write_error"}

\* how much of the dump a failed write may leave: nothing, or all but the last token
Written(dumped) == {0, Len(dumped) - 1}

\* ------------------------------------------------------------------ state

VARIABLES
    tasks_tree,   \* self.tasks_tree
    widgets,      \* the task widgets in scrollable_frame, each with the path its buttons pass
    file,         \* tasks_nested.json
    dialog,       \* the open Toplevel ("edit" or "add_subtask") and the path it was opened for
    last,         \* the handler that ran last, the branch it took, whether and by how
                  \* many tasks it changed the tree, and the path it toggled
    last_save,    \* "none", or how the latest save_tasks() ended: "ok" or "error" (showerror)
    save_called,  \* whether the handler that ran last called save_tasks()
    faults_left,  \* how many more save attempts the environment will let fail
    node_limit,   \* how many tasks the tree may grow to in this run
    running,      \* FALSE once on_closing has destroyed the root window
    objects       \* the identity of the dict at each place of tasks_tree

vars == <<tasks_tree, widgets, file, dialog, last, last_save, save_called, faults_left,
          node_limit, running, objects>>

\* dialog.task is the identity of the dict that edit_task found and save_edit
\* will write to (the closure's `task`), None in the other dialogs
NoDialog == [kind |-> "none", path |-> <<>>, task |-> None]

\* the dicts that are referred to: those of the tree and the one a dialog keeps
Live == Ids(objects) \cup Range(dialog.task)

\* the dialog stays as it is, the dict it keeps numbered as in objects'
KeepDialog(made) ==
    dialog' = [dialog EXCEPT !.task = [i \in DOMAIN @ |-> Renumber(@[i], IdsAt(made))]]

\* how many tasks the tree holds
RECURSIVE count_tasks(_)
count_tasks(tree) ==
    IF tree = <<>> THEN 0
    ELSE 1 + count_tasks(subtasks_get(Head(tree))) + count_tasks(Tail(tree))

\* the paths the buttons of the widgets ws pass to the handlers
ShownPaths(ws) == {w.path : w \in Range(ws)}

Bump(p) == [p EXCEPT ![Len(p)] = @ + 1]

\* The paths a handler may be called with, given those on display: these and,
\* for each, the next sibling position, the first child and the first grandchild
\* position (stale or wrong when no task is there); the empty path and [0].
PathsAround(shown) ==
    {<<>>, <<0>>} \cup shown
    \cup {Bump(p) : p \in shown}
    \cup {p \o <<0>> : p \in shown}
    \cup {p \o <<0, 0>> : p \in shown}

PathInputs(tree) == PathsAround(ShownPaths(refresh_display(tree)))

\* the paths the handlers are called with: each button passes the path its
\* widget was made with (path[:] in create_task_widget)
ButtonPaths == PathsAround(ShownPaths(widgets))

\* What the file may hold when the program starts: no file, an empty file, a
\* dump cut short, and dumps of an empty tree, of a task with a subtask, and of
\* a hand-written task that has only its text; or it may not be readable.
InitialTrees ==
    { <<>>,
      <<[text |-> <<"x">>, done |-> TRUE,
         subtasks |-> <<[text |-> <<"w", Quote, Backslash>>, done |-> FALSE,
                         subtasks |-> <<>>]>>]>>,
      <<[text |-> <<"x">>]>> }

InitialFiles ==
    {Absent, FileWith(<<>>), FileWith(<<"[", "{">>), Unreadable(json_dump(<<>>))}
    \cup {FileWith(json_dump(t)) : t \in InitialTrees}

\* __init__: tasks_tree is [] (line 34) until load_tasks() assigns it; when
\* load_tasks() raises, __init__ and main() end there and no window is served.
Started ==
    /\ file \in InitialFiles
    /\ tasks_tree = IF load_raises(file) THEN <<>> ELSE load_tasks(file)
    /\ widgets = refresh_display(tasks_tree)
    /\ objects = load_objects(tasks_tree, 0)
    /\ dialog = NoDialog
    /\ last = [op |-> "__init__", found |-> FALSE, blank |-> FALSE,
               result |-> FALSE, changed |-> FALSE, delta |-> 0,
               toggled |-> None, again |-> FALSE]
    /\ last_save = "none"
    /\ save_called = FALSE
    /\ running = ~load_raises(file)

\* the program has started, and the disk may fail MaxSaveFailures times
Init == Started /\ faults_left = MaxSaveFailures /\ node_limit = MaxNodesFaulty

\* the program has started, and every write will succeed
InitReliable == Started /\ faults_left = 0 /\ node_limit = MaxNodes

\* ------------------------------------------------------------------ steps shared by the handlers

\* save_tasks() that tries again after a write that failed
SaveRetrying ==
    \E outcome \in SaveOutcomes, written \in Written(json_dump(tasks_tree')) :
        /\ outcome # "ok" => faults_left > 0
        /\ outcome # "write_error" => written = 0
        /\ file' = save_tasks(file, tasks_tree', "ok", 0)
        /\ last_save' = IF outcome = "ok" THEN "ok" ELSE "error"
        /\ save_called' = TRUE
        /\ faults_left' = IF outcome = "ok" THEN faults_left ELSE faults_left - 1

\* self.save_tasks() on the tree the handler has produced
Save ==
    LET dumped == json_dump(tasks_tree')
    IN  \E outcome \in SaveOutcomes, written \in Written(dumped) :
        /\ outcome # "ok" => faults_left > 0
        /\ outcome # "write_error" => written = 0
        /\ file' = write_file(file, dumped, outcome, written)
        /\ last_save' = IF outcome = "ok" THEN "ok" ELSE "error"
        /\ save_called' = TRUE
        /\ faults_left' = IF outcome = "ok" THEN faults_left ELSE faults_left - 1

NoSave == save_called' = FALSE /\ UNCHANGED <<file, last_save, faults_left>>

\* self.refresh_display()
Refresh == widgets' = refresh_display(tasks_tree')

\* toggled is the path of the task the handler toggled, if it did, and again
\* tells that the handler before it toggled the same path
RanToggle(op, found, blank, result, toggled) ==
    last' = [op |-> op, found |-> found, blank |-> blank, result |-> result,
             changed |-> tasks_tree' # tasks_tree,
             delta |-> count_tasks(tasks_tree') - count_tasks(tasks_tree),
             toggled |-> toggled,
             again |-> toggled # None /\ last.toggled = toggled]

Ran(op, found, blank, result) == RanToggle(op, found, blank, result, None)

\* the body of add_task_to_path(text, path)
AddTaskToPath(text, path) ==
    /\ tasks_tree' = add_task_to_path(tasks_tree, text, path)
    /\ count_tasks(tasks_tree') <= node_limit
    /\ LET made == IF strip(text) = <<>> THEN objects
                    ELSE AddObject(objects, NewId(Live), path)
       IN  objects' = renumber_objects(made, IdsAt(made))
    /\ IF strip(text) = <<>>
       THEN NoSave /\ UNCHANGED widgets
       ELSE Refresh /\ Save

\* ------------------------------------------------------------------ handlers

\* the main window served while a dialog is open (no dialog.grab_set())
MainWindowWithoutGrab == running

\* Every handler of the main window needs the window to exist and no dialog to
\* hold the grab (dialog.grab_set()).
MainWindow == running /\ dialog = NoDialog

\* add_main_task: <Return> in the entry field, or the Add Task button
AddMainTask(entry) ==
    /\ MainWindow
    /\ IF strip(entry) # <<>>
       THEN AddTaskToPath(strip(entry), None)
       ELSE UNCHANGED <<tasks_tree, objects>> /\ NoSave /\ UNCHANGED widgets
    /\ Ran("add_main_task", TRUE, strip(entry) = <<>>, FALSE)
    /\ KeepDialog(IF strip(entry) # <<>> THEN AddObject(objects, NewId(Live), None)
                  ELSE objects)
    /\ UNCHANGED <<running, node_limit>>

\* add_subtask(path): opens the dialog, whatever the path
OpenAddSubtask(path) ==
    /\ MainWindow
    /\ dialog' = [kind |-> "add_subtask", path |-> path, task |-> None]
    /\ NoSave
    /\ UNCHANGED <<tasks_tree, objects, widgets, running, node_limit>>
    /\ Ran("add_subtask", get_task_from_path(tasks_tree, path) # None, FALSE, FALSE)

\* add_sub: the dialog's Add button or <Return>
AddSub(entry) ==
    /\ running /\ dialog.kind = "add_subtask"
    /\ IF strip(entry) # <<>>
       THEN AddTaskToPath(strip(entry), Some(dialog.path))
       ELSE UNCHANGED <<tasks_tree, objects>> /\ NoSave /\ UNCHANGED widgets
    /\ dialog' = NoDialog
    /\ Ran("add_sub", get_task_from_path(tasks_tree, dialog.path) # None,
           strip(entry) = <<>>, FALSE)
    /\ UNCHANGED <<running, node_limit>>

\* cancel_add: the dialog's Cancel button or <Escape>
CancelAdd ==
    /\ running /\ dialog.kind = "add_subtask"
    /\ dialog' = NoDialog
    /\ NoSave
    /\ UNCHANGED <<tasks_tree, objects, widgets, running, node_limit>>
    /\ Ran("cancel_add", FALSE, FALSE, FALSE)

\* toggle_task without its save_tasks()
ToggleTaskUnsaved(path) ==
    /\ MainWindow
    /\ tasks_tree' = toggle_task(tasks_tree, path)
    /\ NoSave
    /\ Refresh
    /\ Ran("toggle_task", get_task_from_path(tasks_tree, path) # None, FALSE, FALSE)
    /\ UNCHANGED <<dialog, running, node_limit, objects>>

\* toggle_task(path): a widget's checkbox
ToggleTask(path) ==
    /\ MainWindow
    /\ tasks_tree' = toggle_task(tasks_tree, path)
    /\ RanToggle("toggle_task", get_task_from_path(tasks_tree, path) # None, FALSE, FALSE,
                 IF get_task_from_path(tasks_tree, path) # None THEN Some(path) ELSE None)
    /\ UNCHANGED <<dialog, running, node_limit, objects>>
    /\ IF get_task_from_path(tasks_tree, path) # None
       THEN Refresh /\ Save
       ELSE NoSave /\ UNCHANGED widgets

\* edit_task(path): opens the dialog when the path leads to a task
EditTask(path) ==
    /\ MainWindow
    /\ dialog' = IF get_task_from_path(tasks_tree, path) # None
                 THEN [kind |-> "edit", path |-> path,
                       task |-> Some(get_task_from_path(objects, path)[1].id)]
                 ELSE NoDialog
    /\ NoSave
    /\ UNCHANGED <<tasks_tree, objects, widgets, running, node_limit>>
    /\ Ran("edit_task", get_task_from_path(tasks_tree, path) # None, FALSE, FALSE)

\* save_edit: the dialog's Save button or <Return>.  It writes to the dict that
\* edit_task found, wherever that dict is by now: at its place in the tree, or
\* nowhere in it.
SaveEdit(entry) ==
    /\ running /\ dialog.kind = "edit"
    /\ LET where == PathsOf(objects, dialog.task[1])
       IN  tasks_tree' = IF where = {} THEN tasks_tree
                         ELSE save_edit(tasks_tree, CHOOSE q \in where : TRUE, entry)
    /\ dialog' = NoDialog
    /\ Ran("save_edit", TRUE, strip(entry) = <<>>, FALSE)
    /\ UNCHANGED <<running, node_limit, objects>>
    /\ IF strip(entry) # <<>>
       THEN Refresh /\ Save
       ELSE NoSave /\ UNCHANGED widgets

\* cancel_edit: the dialog's Cancel button or <Escape>
CancelEdit ==
    /\ running /\ dialog.kind = "edit"
    /\ dialog' = NoDialog
    /\ NoSave
    /\ UNCHANGED <<tasks_tree, objects, widgets, running, node_limit>>
    /\ Ran("cancel_edit", FALSE, FALSE, FALSE)

\* delete_task(path): a widget's delete button; result is the answer to askyesno
DeleteTask(path, result) ==
    /\ MainWindow
    /\ result => get_task_from_path(tasks_tree, path) # None
    /\ tasks_tree' = delete_task(tasks_tree, path, result)
    /\ LET left == delete_task(objects, path, result)
       IN  objects' = renumber_objects(left, IdsAt(left))
    /\ Ran("delete_task", get_task_from_path(tasks_tree, path) # None, FALSE, result)
    /\ KeepDialog(delete_task(objects, path, result))
    /\ UNCHANGED <<running, node_limit>>
    /\ IF tasks_tree' # tasks_tree
       THEN Refresh /\ Save
       ELSE NoSave /\ UNCHANGED widgets

\* on_closing: WM_DELETE_WINDOW on the root window
OnClosing ==
    /\ running
    /\ tasks_tree' = tasks_tree
    /\ running' = FALSE
    /\ dialog' = NoDialog
    /\ Ran("on_closing", FALSE, FALSE, FALSE)
    /\ UNCHANGED <<widgets, node_limit, objects>>
    /\ Save

Next ==
    \/ \E entry \in TextInputs : AddMainTask(entry)
    \/ \E path \in ButtonPaths : OpenAddSubtask(path)
    \/ \E entry \in TextInputs : AddSub(entry)
    \/ CancelAdd
    \/ \E path \in ButtonPaths : ToggleTask(path)
    \/ \E path \in ButtonPaths : EditTask(path)
    \/ \E entry \in TextInputs : SaveEdit(entry)
    \/ CancelEdit
    \/ \E path \in ButtonPaths, result \in BOOLEAN : DeleteTask(path, result)
    \/ OnClosing

Spec == Init /\ [][Next]_vars

\* the runs of Spec in which no save fails
SpecReliable == InitReliable /\ [][Next]_vars

\* ------------------------------------------------------------------ describing a tree

\* what a task holds itself: its keys other than subtasks
Own(task) == [k \in DOMAIN task \ {"subtasks"} |-> task[k]]

\* A tree as the set of its tasks, each with its path, what it holds itself and
\* whether it has a subtasks list: two trees are equal exactly when these sets are.
Flat(tree) ==
    {[path |-> w.path, own |-> Own(w.task), hassub |-> "subtasks" \in DOMAIN w.task] :
        w \in Range(refresh_display(tree))}

IsPrefix(p, q) == Len(p) <= Len(q) /\ SubSeq(q, 1, Len(p)) = p

\* the tasks of the sibling sequence that p indexes
Siblings(flat, p) ==
    {e \in flat : Len(e.path) = Len(p)
                        /\ SubSeq(e.path, 1, Len(p) - 1) = SubSeq(p, 1, Len(p) - 1)}

Resolving(tree) == {p \in PathInputs(tree) : get_task_from_path(tree, p) # None}

NotShown(tree) == PathInputs(tree) \ ShownPaths(refresh_display(tree))

BlankTexts == {t \in TextInputs : \A i \in DOMAIN t : t[i] \in Whitespace}

\* ------------------------------------------------------------------ C1

\* where the task at path q is after the task at p has been removed
AfterDelete(q, p) ==
    IF /\ Len(q) >= Len(p)
       /\ SubSeq(q, 1, Len(p) - 1) = SubSeq(p, 1, Len(p) - 1)
       /\ q[Len(p)] > p[Len(p)]
    THEN [q EXCEPT ![Len(p)] = @ - 1]
    ELSE q

\* C1: for every path p that resolves, a confirmed delete_task(p) removes the
\* task at p and its whole subtree and nothing else: the tasks that remain are
\* those not under p, each unchanged, the later siblings of p (and what is under
\* them) one position earlier; the sibling sequence is one shorter.
C1_DeleteRemovesExactlySubtree ==
    LET flat == Flat(tasks_tree)
    IN  \A p \in Resolving(tasks_tree) :
            LET after == Flat(delete_task(tasks_tree, p, TRUE))
            IN  /\ after = {[e EXCEPT !.path = AfterDelete(e.path, p)] :
                               e \in {e \in flat : ~IsPrefix(p, e.path)}}
                /\ Cardinality(Siblings(after, p)) = Cardinality(Siblings(flat, p)) - 1

\* a confirmed delete has removed a task together with what was under it, and a
\* root remains
C1_Witness ==
    /\ last.op = "delete_task" /\ last.result /\ last.delta <= -2
    /\ Len(tasks_tree) >= 1

\* ------------------------------------------------------------------ C2

\* C2: for every path that the display does not show (no task is there), toggle,
\* edit, delete and add-under leave the tree as it was, the add for every text;
\* and a handler that did not find its task has changed nothing and has opened
\* no edit dialog.
C2_UnresolvablePathIsNoOp ==
    /\ \A p \in NotShown(tasks_tree) :
          /\ toggle_task(tasks_tree, p) = tasks_tree
          /\ delete_task(tasks_tree, p, TRUE) = tasks_tree
          /\ \A t \in TextInputs :
                /\ save_edit(tasks_tree, p, t) = tasks_tree
                /\ add_task_to_path(tasks_tree, t, Some(p)) = tasks_tree
    /\ (last.op \in {"toggle_task", "edit_task", "delete_task", "add_sub"} /\ ~last.found)
          => (~last.changed /\ (last.op = "edit_task" => dialog = NoDialog))

\* the add dialog was opened for a path with no task, and a text was entered
C2_Witness ==
    /\ last.op = "add_sub" /\ ~last.found /\ ~last.blank
    /\ tasks_tree # <<>>

\* ------------------------------------------------------------------ C3

\* C3: a text that is empty or all white space adds no task, at the roots or
\* under any path, and replaces no task's text; a handler that read such a text
\* has not changed the tree.
C3_BlankTextNeverMutates ==
    /\ \A t \in BlankTexts :
          /\ add_task_to_path(tasks_tree, t, None) = tasks_tree
          /\ \A p \in PathInputs(tasks_tree) :
                /\ add_task_to_path(tasks_tree, t, Some(p)) = tasks_tree
                /\ save_edit(tasks_tree, p, t) = tasks_tree
    /\ last.blank => ~last.changed

\* the edit dialog of a task was saved with a blank text
C3_Witness ==
    /\ last.op = "save_edit" /\ last.blank
    /\ tasks_tree # <<>>

\* ------------------------------------------------------------------ C4

NonBlankTexts == TextInputs \ BlankTexts

\* u is t without the white space at its ends, and is not empty
IsTrimOf(u, t) ==
    \E i, j \in DOMAIN t :
        /\ i <= j /\ u = SubSeq(t, i, j)
        /\ t[i] \notin Whitespace /\ t[j] \notin Whitespace
        /\ \A k \in DOMAIN t : (k < i \/ k > j) => t[k] \in Whitespace

\* e is a new task made from the text t
IsNewTask(e, t) ==
    /\ DOMAIN e.own = {"text", "done"}
    /\ IsTrimOf(e.own.text, t)
    /\ e.own.done = FALSE
    /\ e.hassub

\* the tasks directly under the task at p
Children(flat, p) == {e \in flat : Len(e.path) = Len(p) + 1 /\ IsPrefix(p, e.path)}

BuyMilk == <<"B", "u", "y", " ", "m", "i", "l", "k">>

TwoPercent == <<"2", "%">>

\* C4: a text that is not blank adds exactly one task {trimmed text, not done, no
\* subtasks}: without a path after the last root, with a path that resolves after
\* the last subtask of the task there (which gets a subtasks list if it had
\* none); every other task is as before.  From the empty tree, adding "Buy milk"
\* and then "2%" under [0] gives one root with that one subtask.
C4_AddAppendsOneTask ==
    LET flat == Flat(tasks_tree)
    IN  /\ \A t \in NonBlankTexts :
              /\ \E e \in Flat(add_task_to_path(tasks_tree, t, None)) :
                    /\ e.path = <<Len(tasks_tree)>>
                    /\ IsNewTask(e, t)
                    /\ Flat(add_task_to_path(tasks_tree, t, None)) = flat \cup {e}
              /\ \A p \in Resolving(tasks_tree) :
                    \E e \in Flat(add_task_to_path(tasks_tree, t, Some(p))) :
                        /\ e.path = Append(p, Cardinality(Children(flat, p)))
                        /\ IsNewTask(e, t)
                        /\ Flat(add_task_to_path(tasks_tree, t, Some(p))) =
                              {[f EXCEPT !.hassub = @ \/ f.path = p] : f \in flat} \cup {e}
        /\ add_task_to_path(add_task_to_path(<<>>, BuyMilk, None), TwoPercent, Some(<<0>>))
              = <<[text |-> BuyMilk, done |-> FALSE,
                   subtasks |-> <<[text |-> TwoPercent, done |-> FALSE, subtasks |-> <<>>]>>]>>

\* the add dialog of a task that already had a subtask has added a second one
C4_Witness ==
    /\ last.op = "add_sub" /\ last.found /\ ~last.blank /\ last.delta = 1
    /\ \E w \in Range(widgets) : Len(w.path) = 2 /\ w.path[2] = 1

\* ------------------------------------------------------------------ C5

WellFormed(tree) ==
    \A w \in Range(refresh_display(tree)) : DOMAIN w.task = {"text", "done", "subtasks"}

\* C5: toggling the same path twice gives back the flag the task had, and the
\* tree it was in: exactly when the task held a done flag, and otherwise (a task
\* read from a file without one) with the flag it was taken to have written out.
C5_ToggleTwiceRestores ==
    LET flat == Flat(tasks_tree)
        wellformed == WellFormed(tasks_tree)
    IN  \A p \in PathInputs(tasks_tree) :
            LET twice == toggle_task(toggle_task(tasks_tree, p), p)
            IN  /\ Flat(twice) =
                     {IF e.path = p
                      THEN [e EXCEPT !.own = SetKey(e.own, "done", done_get(e.own))]
                      ELSE e : e \in flat}
                /\ wellformed => twice = tasks_tree

\* a subtask that was done has been toggled twice in a row and is done again
C5_Witness ==
    /\ last.op = "toggle_task" /\ last.again
    /\ Len(last.toggled[1]) = 2
    /\ done_get(get_task_from_path(tasks_tree, last.toggled[1])[1])

\* ------------------------------------------------------------------ C6

\* C6: toggling a path that resolves negates the done flag of the task there and
\* changes nothing else of it or of any other task.
C6_ToggleNegatesOnlyThatFlag ==
    LET flat == Flat(tasks_tree)
    IN  \A p \in Resolving(tasks_tree) :
            Flat(toggle_task(tasks_tree, p)) =
                {IF e.path = p
                 THEN [e EXCEPT !.own = SetKey(e.own, "done", ~done_get(e.own))]
                 ELSE e : e \in flat}

\* a task with a subtask was toggled, and the two now differ in their flags
C6_Witness ==
    /\ last.op = "toggle_task" /\ last.found /\ last.changed
    /\ \E w \in Range(widgets) :
          /\ subtasks_get(w.task) # <<>>
          /\ done_get(w.task) # done_get(subtasks_get(w.task)[1])

\* ------------------------------------------------------------------ C7

\* C7: saving the edit of a path that resolves with a text that is not blank
\* makes the trimmed text the text of the task there and changes nothing else of
\* it or of any other task; the handler closes the dialog and adds or removes no
\* task.
C7_EditReplacesOnlyText ==
    /\ LET flat == Flat(tasks_tree)
       IN  \A p \in Resolving(tasks_tree), t \in NonBlankTexts :
               LET after == Flat(save_edit(tasks_tree, p, t))
               IN  \E u \in {e.own.text : e \in after} :
                       /\ IsTrimOf(u, t)
                       /\ after = {IF e.path = p
                                   THEN [e EXCEPT !.own = SetKey(e.own, "text", u)]
                                   ELSE e : e \in flat}
    /\ (last.op = "save_edit" /\ ~last.blank) => (dialog = NoDialog /\ last.delta = 0)

\* the edit dialog of a task has replaced its text, and the task kept its subtask
C7_Witness ==
    /\ last.op = "save_edit" /\ ~last.blank /\ last.changed
    /\ \E w \in Range(widgets) :
          /\ w.task.text = <<"y", "\t", "z">>
          /\ subtasks_get(w.task) # <<>>
          /\ subtasks_get(w.task)[1].text = <<"w", Quote, Backslash>>

\* ------------------------------------------------------------------ C8

\* every path of at most two indices from lo .. MaxNodes
ShortPaths(lo) ==
    {<<>>} \cup {<<i>> : i \in lo..MaxNodes} \cup {<<i, j>> : i, j \in lo..MaxNodes}

\* C8: the paths on display are exactly the paths that resolve, and each resolves
\* to the task displayed with it; the widgets are the display of the tree.
C8_DisplayedPathsAreResolvingPaths ==
    LET display == refresh_display(tasks_tree)
        shown == ShownPaths(display)
    IN  /\ \A p \in PathsAround(shown) \cup ShortPaths(0) :
              p \in shown <=> get_task_from_path(tasks_tree, p) # None
        /\ \A w \in Range(display) :
              get_task_from_path(tasks_tree, w.path) = Some(w.task)
        /\ widgets = display

\* two roots on display, the second with a subtask
C8_Witness ==
    /\ Len(tasks_tree) >= 2
    /\ \E w \in Range(widgets) : w.path = <<1, 0>>

\* ------------------------------------------------------------------ C9

\* the paths of PathInputs, each of them with one index replaced by -1, and the
\* short paths from -MaxNodes on
IntegerPaths(tree) ==
    PathInputs(tree)
    \cup UNION {{[p EXCEPT ![i] = -1] : i \in DOMAIN p} : p \in PathInputs(tree)}
    \cup ShortPaths(-MaxNodes)

\* every index of path is within 0 .. length - 1 of the sequence it indexes
RECURSIVE AllInRange(_, _)
AllInRange(list, path) ==
    /\ 0 <= path[1] /\ path[1] <= Len(list) - 1
    /\ Len(path) > 1 => AllInRange(subtasks_get(list[path[1] + 1]), Tail(path))

\* C9: for every sequence of integers that is not empty, get_task_from_path
\* returns a task only when every index is within 0 .. length - 1 at its level
\* (a task without subtasks counting as having none), and None otherwise.
C9_ResolveChecksEveryIndex ==
    \A p \in IntegerPaths(tasks_tree) \ {<<>>} :
        get_task_from_path(tasks_tree, p) # None => AllInRange(tasks_tree, p)

\* C9, for sequences of non-negative integers only: there the statement holds
C9_HoldsWithoutNegativeIndices ==
    \A p \in (PathInputs(tasks_tree) \cup ShortPaths(0)) \ {<<>>} :
        get_task_from_path(tasks_tree, p) # None <=> AllInRange(tasks_tree, p)

\* ------------------------------------------------------------------ C10

\* C10: a handler that has changed the tree has called save_tasks(); and when
\* the latest save succeeded, the file holds the dump of the tree as it is now,
\* which reads back as that tree.
C10_ChangeIsSavedAtOnce ==
    /\ last.changed => save_called
    /\ last_save = "ok" =>
          /\ file = FileWith(json_dump(tasks_tree))
          /\ json_load(file.content) = Good(tasks_tree, <<>>)

\* after a save that failed, a later handler changed the tree and saved it
C10_Witness ==
    /\ last.changed /\ save_called /\ last_save = "ok"
    /\ faults_left < MaxSaveFailures
    /\ Len(tasks_tree) = 2

\* ------------------------------------------------------------------ C11

\* the file holds an array of tasks, each with its text, done flag and subtasks
HoldsPersistedTree(f) ==
    /\ f.exists /\ f.readable
    /\ json_load(f.content).ok
    /\ WellFormed(json_load(f.content).value)

\* C11: whatever the file is at startup, load_tasks() does not raise (the window
\* is served), and unless the file holds a well-formed tree the tree is empty.
C11_LoadNeverRaisesAndStartsEmpty ==
    last.op = "__init__" =>
        /\ ~load_raises(file) /\ running
        /\ ~HoldsPersistedTree(file) => tasks_tree = <<>>

\* C11 for a file that is absent, empty or not JSON: there the statement holds
C11_HoldsForAbsentEmptyAndUndecodable ==
    (last.op = "__init__" /\ file.readable /\ ~json_load(file.content).ok) =>
        (running /\ tasks_tree = <<>>)

\* ------------------------------------------------------------------ C12

\* the trees the handler op can make of tree when it goes as far as save_tasks()
Produced(op, tree, dlg, toggled) ==
    CASE op = "add_main_task" ->
            {add_task_to_path(tree, t, None) : t \in NonBlankTexts}
      [] op = "add_sub" ->
            {add_task_to_path(tree, t, Some(dlg.path)) : t \in NonBlankTexts}
      [] op = "toggle_task" ->
            {toggle_task(tree, p) : p \in {toggled[i] : i \in DOMAIN toggled}}
      [] op = "save_edit" ->
            {save_edit(tree, dlg.path, t) : t \in NonBlankTexts}
      [] op = "delete_task" ->
            {delete_task(tree, p, TRUE) : p \in Resolving(tree)}
      [] OTHER -> {tree}

\* C12: a handler whose save_tasks() fails leaves the tree as its change made it,
\* and the file as it was or with part of the dump, never the whole (no second
\* attempt); apart from on_closing the window goes on serving, with no dialog
\* left open; a step without save_tasks() does not write the file; and a save
\* that succeeds writes the whole tree as it then is, which loads as that tree.
C12_FailedSaveKeepsTreeAndGoesOn ==
    /\ [][ /\ (save_called' /\ last_save' = "error") =>
                  /\ tasks_tree' \in Produced(last'.op, tasks_tree, dialog, last'.toggled)
                  /\ \/ file' = file
                     \/ LET dumped == json_dump(tasks_tree')
                        IN  /\ Len(file'.content) < Len(dumped)
                            /\ IsPrefix(file'.content, dumped)
                  /\ last'.op # "on_closing" => (running' /\ dialog' = NoDialog)
           /\ ~save_called' => file' = file
         ]_vars
    /\ []((save_called /\ last_save = "ok") =>
              /\ file.content = json_dump(tasks_tree)
              /\ ~load_raises(file) /\ load_tasks(file) = tasks_tree)

\* a save has failed: the tree holds a change that the file lacks, and the main
\* window is serving
C12_Witness ==
    /\ last_save = "error" /\ save_called /\ last.changed
    /\ last.op # "on_closing" /\ running /\ dialog = NoDialog
    /\ tasks_tree # <<>>
    /\ load_tasks(file) # tasks_tree

\* ------------------------------------------------------------------ C13

\* characters that mean something to JSON, and some that do not
SampleChars == {"a", "t", " ", "\t", Quote, Backslash, ",", ":", "]", "}"}

\* the well-formed trees of one root and at most one subtask, each text being
\* two of the SampleChars
SampleTrees ==
    {<<[text |-> <<c, d>>, done |-> b, subtasks |-> <<>>]>> :
        c \in SampleChars, d \in SampleChars, b \in BOOLEAN}
    \cup {<<[text |-> <<c, d>>, done |-> FALSE,
              subtasks |-> <<[text |-> <<d, c>>, done |-> TRUE, subtasks |-> <<>>]>>]>> :
        c \in {Quote, Backslash, "a"}, d \in SampleChars}

\* save_tasks() of tree, without a failure, and then load_tasks()
Reloaded(f, tree) == load_tasks(save_tasks(f, tree, "ok", 0))

\* C13: once the program has started, a tree that is saved and loaded is the
\* same tree again, whatever the file was before: so for the tree in memory,
\* well-formed or as loaded from a hand-written file, and for each of the
\* SampleTrees; and saving what was loaded writes the same file again.
C13_SaveThenLoadGivesTheTree ==
    /\ ~load_raises(file) =>
          \A f \in {file, Absent} :
              LET saved == save_tasks(f, tasks_tree, "ok", 0)
                  reloaded == Reloaded(f, tasks_tree)
              IN  /\ ~load_raises(saved)
                  /\ reloaded = tasks_tree
                  /\ save_tasks(f, reloaded, "ok", 0) = saved
    /\ last.op = "__init__" =>
          \A t \in SampleTrees : WellFormed(t) /\ Reloaded(Absent, t) = t

\* the tree was loaded at startup from a file with a subtask whose text needs
\* escaping, the root's text was replaced by one with a tab, a third task was
\* added, and the file last saved loads as the tree
C13_Witness ==
    /\ last_save = "ok" /\ load_tasks(file) = tasks_tree
    /\ Len(widgets) = 3
    /\ \E w \in Range(widgets) : Len(w.path) = 2 /\ Quote \in Range(w.task.text)
    /\ \E w \in Range(widgets) : "\t" \in Range(w.task.text)

\* ------------------------------------------------------------------ C14

\* C14: the program is over only through on_closing, which has made its one
\* save attempt of the tree (ending well or not) before the window went.
C14_OnlyShutdownTerminates ==
    ~running => (last.op = "on_closing" /\ save_called /\ last_save # "none")

\* C14 for a program that has started: each step that ends it is on_closing,
\* which makes one save attempt of the tree as it is and ends the program
\* whether the attempt fails or not; no other step ends it or follows it.
C14_HoldsOnceStarted ==
    [][ /\ ~running' => last'.op = "on_closing"
        /\ last'.op = "on_closing" =>
              /\ running /\ ~running'
              /\ tasks_tree' = tasks_tree
              /\ save_called' /\ last_save' \in {"ok", "error"}
              /\ faults_left' \in {faults_left, faults_left - 1}
              /\ last_save' = "ok" => file'.content = json_dump(tasks_tree)
      ]_vars

\* ------------------------------------------------------------------ C15

\* every task of the tree has exactly a text, a done flag and a subtasks list,
\* the text not empty and with no white space at either end, the flag a boolean
TasksAreWhole(tree) ==
    \A w \in Range(refresh_display(tree)) :
        /\ DOMAIN w.task = {"text", "done", "subtasks"}
        /\ w.task.text # <<>>
        /\ w.task.text[1] \notin Whitespace
        /\ w.task.text[Len(w.task.text)] \notin Whitespace
        /\ w.task.done \in BOOLEAN

\* the file is absent, or empty, or holds a tree whose tasks are whole
StartsWhole(f) ==
    \/ ~f.exists
    \/ f.readable /\ f.content = <<>>
    \/ f.readable /\ json_load(f.content).ok /\ TasksAreWhole(json_load(f.content).value)

SingleOwner(objs) ==
    \A v, w \in Range(refresh_display(objs)) : v.task.id = w.task.id => v.path = w.path

\* C16: the dicts of the tree are at the places where the tree has tasks, each
\* dict at exactly one place (one sibling sequence, one index: one path) and
\* none under itself; and whatever is added or deleted next, under or at any
\* path, that is so afterwards.
C16_EveryTaskHasOneOwner ==
    /\ ShownPaths(refresh_display(objects)) = ShownPaths(refresh_display(tasks_tree))
    /\ SingleOwner(objects)
    /\ \A id \in Ids(objects) : Cardinality(PathsOf(objects, id)) = 1
    /\ SingleOwner(AddObject(objects, NewId(Live), None))
    /\ \A p \in PathInputs(tasks_tree) :
          /\ SingleOwner(AddObject(objects, NewId(Live), Some(p)))
          /\ SingleOwner(delete_task(objects, p, TRUE))

\* a subtask has been added under the first of two roots: three dicts, the new
\* one between the two that were there
C16_Witness ==
    /\ last.op = "add_sub" /\ last.delta = 1
    /\ Cardinality(Ids(objects)) = 3
    /\ PathsOf(objects, 1) = {<<0, 0>>}
    /\ PathsOf(objects, 2) = {<<1>>}

\* ------------------------------------------------------------------ C17

\* the number of tasks in a list and under its tasks
RECURSIVE TreeSize(_)
TreeSize(list) ==
    IF list = <<>> THEN 0
    ELSE 1 + TreeSize(subtasks_get(Head(list))) + TreeSize(Tail(list))

\* p comes before q in pre-order: p is a proper prefix of q, or at the first
\* index where they differ that of p is smaller
Before(p, q) ==
    \/ Len(p) < Len(q) /\ IsPrefix(p, q)
    \/ \E k \in 1..Len(p) :
          /\ k <= Len(q)
          /\ SubSeq(p, 1, k - 1) = SubSeq(q, 1, k - 1)
          /\ p[k] < q[k]

\* C17: the display of the tree has one widget for each task and no more; the
\* roots have the paths [0], [1], ... and depth 0, the subtasks of the task with
\* path p the paths p + [0], p + [1], ... in the order of the list; each widget
\* shows the task at its path, at a depth one less than the length of the path;
\* and the widgets are in pre-order.
C17_DisplayIsPreOrder ==
    LET display == refresh_display(tasks_tree)
        shown == ShownPaths(display)
    IN  /\ Len(display) = TreeSize(tasks_tree)
        /\ Cardinality(shown) = Len(display)
        /\ {p \in shown : Len(p) = 1} = {<<i>> : i \in 0..(Len(tasks_tree) - 1)}
        /\ \A w \in Range(display) :
              /\ w.path # <<>>
              /\ w.depth = Len(w.path) - 1
              /\ get_task_from_path(tasks_tree, w.path) = Some(w.task)
              /\ {p \in shown : Len(p) = Len(w.path) + 1 /\ IsPrefix(w.path, p)}
                    = {Append(w.path, i) : i \in 0..(Len(subtasks_get(w.task)) - 1)}
        /\ \A i, j \in DOMAIN display : i < j => Before(display[i].path, display[j].path)

\* on display: a root, its two subtasks, or a root, its subtask and a second root
C17_Witness ==
    /\ Len(widgets) = 3
    /\ widgets[1].path = <<0>> /\ widgets[2].path = <<0, 0>>
    /\ widgets[3].path \in {<<0, 1>>, <<1>>}
    /\ widgets[3].depth = Len(widgets[3].path) - 1

\* ------------------------------------------------------------------ C18

\* s with the index that it has at the level of d's last index one greater
Moved(s, d) == [s EXCEPT ![Len(d)] = @ + 1]

\* s is d or a later sibling of d, or a path under one of them
AtOrAfter(s, d) ==
    /\ Len(s) >= Len(d)
    /\ SubSeq(s, 1, Len(d) - 1) = SubSeq(d, 1, Len(d) - 1)
    /\ s[Len(d)] >= d[Len(d)]

\* C18: when the task at a path d that resolves is deleted (the main window is
\* served, and the answer is yes), the dicts under d
\* are gone from the tree, each dict at or under a later sibling is found at its
\* path with that one index one less, and every other dict at its path; a path s
\* from before that pointed at d, after d or under them leads afterwards to what
\* was one sibling further, or to nothing, and toggling, editing, adding under
\* or deleting at s then does to the tree what it would have done one sibling
\* further before the deletion (nothing, where there is no task).
C18_DeleteShiftsLaterSiblings ==
    [](MainWindow =>
    LET inputs == PathInputs(tasks_tree)
        shown == Range(refresh_display(objects))
    IN  \A d \in {p \in inputs : get_task_from_path(tasks_tree, p) # None} :
        LET tree_after == delete_task(tasks_tree, d, TRUE)
            objs_after == delete_task(objects, d, TRUE)
            shown_after == Range(refresh_display(objs_after))
        IN  /\ \A w \in shown :
                  {v.path : v \in {u \in shown_after : u.task.id = w.task.id}} =
                      IF IsPrefix(d, w.path) THEN {}
                      ELSE IF AtOrAfter(w.path, d) THEN {[w.path EXCEPT ![Len(d)] = @ - 1]}
                      ELSE {w.path}
            /\ \A s \in {s \in inputs : AtOrAfter(s, d)} :
                  LET found == get_task_from_path(tree_after, s)
                  IN
                  /\ get_task_from_path(objs_after, s) = get_task_from_path(objects, Moved(s, d))
                  /\ found = get_task_from_path(tasks_tree, Moved(s, d))
                  /\ toggle_task(tree_after, s)
                        = delete_task(toggle_task(tasks_tree, Moved(s, d)), d, TRUE)
                  /\ delete_task(tree_after, s, TRUE)
                        = delete_task(delete_task(tasks_tree, Moved(s, d), TRUE), d, TRUE)
                  /\ \A t \in TextInputs :
                        /\ save_edit(tree_after, s, t)
                              = delete_task(save_edit(tasks_tree, Moved(s, d), t), d, TRUE)
                        /\ add_task_to_path(tree_after, t, Some(s))
                              = delete_task(add_task_to_path(tasks_tree, t, Some(Moved(s, d))),
                                            d, TRUE)
                  /\ found = None =>
                        /\ toggle_task(tree_after, s) = tree_after
                        /\ delete_task(tree_after, s, TRUE) = tree_after)

\* the first of two roots was deleted with its subtask: the root that was added
\* as the second is now the only one, at [0]
C18_Witness ==
    /\ last.op = "delete_task" /\ last.result /\ last.delta = -2
    /\ Len(tasks_tree) = 1
    /\ tasks_tree[1].text = <<"y", "\t", "z">>
    /\ get_task_from_path(tasks_tree, <<1>>) = None

\* ------------------------------------------------------------------ C19

\* every task that was shown is in `after` at the same path, with the keys of
\* `same` as they were and as many subtasks as it had, or one more if `grown`
SamePlaces(shown, after, same, grown) ==
    \A w \in shown :
        LET found == get_task_from_path(after, w.path)
        IN  /\ found # None
            /\ \A k \in same : (k \in DOMAIN w.task <=> k \in DOMAIN found[1])
                                /\ (k \in DOMAIN w.task => found[1][k] = w.task[k])
            /\ Len(subtasks_get(found[1])) - Len(subtasks_get(w.task))
                  \in (IF grown THEN {0, 1} ELSE {0})

\* what the tree is after an add at every place, a toggle and an edit at every
\* path: every task and every dict that was in it is at its path
PathsStay ==
    LET shown == Range(refresh_display(tasks_tree))
        dicts == Range(refresh_display(objects))
        inputs == PathInputs(tasks_tree)
    IN  /\ \A t \in TextInputs, a \in {None} \cup {Some(p) : p \in inputs} :
              /\ SamePlaces(shown, add_task_to_path(tasks_tree, t, a), {"text", "done"}, TRUE)
              /\ strip(t) = <<>>
                    \/ LET after == Range(refresh_display(AddObject(objects, NewId(Live), a)))
                       IN  \A w \in dicts :
                               {v.path : v \in {u \in after : u.task.id = w.task.id}}
                                   = {w.path}
        /\ \A p \in inputs :
              /\ SamePlaces(shown, toggle_task(tasks_tree, p), {"text"}, FALSE)
              /\ \A t \in TextInputs :
                    SamePlaces(shown, save_edit(tasks_tree, p, t), {"done"}, FALSE)

\* C19: adding, toggling and editing leave every task at its path, the same dict
\* with at most its flag, its text or the number of its subtasks changed; and a
\* step after which some path of the tree leads to no task is a confirmed
\* delete_task, no step but a delete or an add changing which dict is where.
C19_OnlyDeleteMovesTasks ==
    /\ []PathsStay
    /\ [][ /\ (/\ tasks_tree' # tasks_tree
                /\ \E p \in ShownPaths(refresh_display(tasks_tree)) :
                       get_task_from_path(tasks_tree', p) = None)
               => (last'.op = "delete_task" /\ last'.result)
           /\ (last'.op \notin {"delete_task", "add_main_task", "add_sub"})
               => (objects' = objects)
         ]_vars

\* the root from the file has a new text, a second root was added and a task
\* was toggled: the subtask from the file is still at [0, 0]
C19_Witness ==
    /\ last.op = "toggle_task" /\ last.changed
    /\ Len(tasks_tree) = 2
    /\ tasks_tree[1].text = <<"y", "\t", "z">>
    /\ get_task_from_path(tasks_tree, <<0, 0>>) # None
    /\ get_task_from_path(tasks_tree, <<0, 0>>)[1].text = <<"w", Quote, Backslash>>

\* ------------------------------------------------------------------ C20

\* C20: while a dialog is open the only steps are its commit, its cancel and
\* the closing of the window, and only the commit changes the tree; save_edit
\* writes to the dict that is, then, in the tree at the one path the dialog was
\* opened for, and the step does to the tree what an edit at that path does;
\* add_sub does what an add under the path the dialog was opened for does to
\* the tree as it is.
C20_DialogCommitsOnTheTaskItWasOpenedFor ==
    [][ /\ dialog.kind # "none" =>
              /\ last'.op \in {"save_edit", "cancel_edit", "add_sub", "cancel_add",
                                "on_closing"}
              /\ dialog' = NoDialog
              /\ tasks_tree' # tasks_tree => last'.op \in {"save_edit", "add_sub"}
        /\ last'.op = "save_edit" =>
              /\ dialog.kind = "edit"
              /\ PathsOf(objects, dialog.task[1]) = {dialog.path}
              /\ get_task_from_path(tasks_tree, dialog.path) # None
              /\ \E t \in TextInputs : tasks_tree' = save_edit(tasks_tree, dialog.path, t)
        /\ last'.op = "add_sub" =>
              /\ dialog.kind = "add_subtask"
              /\ \E t \in TextInputs :
                    tasks_tree' = add_task_to_path(tasks_tree, t, Some(dialog.path))
      ]_vars

\* the edit dialog of a subtask has replaced its text
C20_Witness ==
    /\ last.op = "save_edit" /\ last.changed /\ dialog = NoDialog
    /\ \E w \in Range(widgets) : Len(w.path) = 2 /\ w.task.text = <<"y", "\t", "z">>

====
